---- MODULE Spec2Model ----
(***************************************************************************)
(* A model of AsyncioOrleansScraper (src/asyncio_orleans_scraper.py):     *)
(* the munch pipeline (defendant fan-out, barrier, sheet fan-out, buffered *)
(* log), the Range Auditor (check_missing, check_range_downloaded) with    *)
(* its file-name parsing, and the token bucket the fetches go through.     *)
(*                                                                         *)
(* Strings (file names, URLs) are sequences of one-character strings, so   *)
(* that slicing, formatting and parsing are computed as the code does.     *)
(***************************************************************************)
EXTENDS Integers, Sequences, FiniteSets, TLC

(***************************************************************************)
(* Bounds of the model                                                     *)
(***************************************************************************)
\* number of defendant IDs above StartNum that a range [start, stop) may span
RangeLen == 2
\* number of distinct docket sheets (docase numbers) the remote pages link to
NumCases == 2
\* number of munch calls in one behaviour
MaxRuns == 2
\* number of fetches in one behaviour that do not bring back a body (empty
\* response, timeout or client error, unexpected error)
MaxFaults == 2
\* token bucket: capacity (max_tokens) and tokens added per interval (rate)
MaxTokens == 2
Rate == 1
\* token bucket: concurrent callers, clock steps in one replenishment
\* interval, and length in clock steps of the interval observed
NumCallers == 2
StepsPerRefill == 2
MaxSteps == 4
\* the log on its own: number of calls of log, and the lengths in characters
\* of the messages given to it
MaxLogCalls == 5
ShortMessage == 18
LongMessage == 60000

(***************************************************************************)
(* Program constants                                                       *)
(***************************************************************************)
\* default start_num of __init__: the first six-digit defendant ID
StartNum == 633000
\* first docket number named in the class docstring
FirstCase == 328010
\* threshold of the flush test in log
LogThreshold == 100000
\* i[:-5] drops the five characters of the extension
ExtLen == 5
\* [-6:] keeps the six characters in front of the extension
IdWidth == 6
\* len(time.strftime('%c')), as in 'Fri Nov  6 00:46:39 2026'
StampLen == 24

(***************************************************************************)
(* Strings                                                                 *)
(***************************************************************************)
Digits == <<"0", "1", "2", "3", "4", "5", "6", "7", "8", "9">>

IsDigit(c) == \E k \in 1..10 : Digits[k] = c

DigitVal(c) == (CHOOSE k \in 1..10 : Digits[k] = c) - 1

\* f"{n}" of a non-negative int: decimal, no padding
RECURSIVE Str(_)
Str(n) == IF n < 10 THEN <<Digits[n + 1]>>
          ELSE Str(n \div 10) \o <<Digits[(n % 10) + 1]>>

\* s[:-k]
DropLast(s, k) == IF Len(s) <= k THEN <<>> ELSE SubSeq(s, 1, Len(s) - k)

\* s[-k:]
TakeLast(s, k) == IF Len(s) <= k THEN s ELSE SubSeq(s, Len(s) - k + 1, Len(s))

\* int(s) succeeds on a non-empty string of decimal digits (the only strings
\* with a value over the alphabet of the model: digits, letters and ".")
IntOk(s) == Len(s) > 0 /\ \A k \in 1..Len(s) : IsDigit(s[k])

RECURSIVE IntVal(_)
IntVal(s) == IF Len(s) = 0 THEN 0
             ELSE 10 * IntVal(DropLast(s, 1)) + DigitVal(s[Len(s)])

def_url == <<"h","t","t","p",":","/","/","w","w","w",".","o","p","c","s","o",
             ".","o","r","g","/","d","c","k","t","m","s","t","r","/","d","m",
             "d","s","p","s","c","n",".","p","h","p","?","d","1","s","c","n",
             "n","=">>

sheet_url == <<"h","t","t","p",":","/","/","w","w","w",".","o","p","c","s","o",
               ".","o","r","g","/","d","c","k","t","m","s","t","r","/">>

\* the href of a docket sheet on a defendant page, for docase number c
LinkHref(c) == <<"6","6","6","6","6","6",".","p","h","p","?","&","d","o","c",
                 "a","s","e","=">> \o Str(c)

DefendantPrefix == <<"d","e","f","e","n","d","a","n","t">>
DocketPrefix == <<"d","o","c","k","e","t">>
HtmlExt == <<".","h","t","m","l">>

\* f"{self.defendant_path}defendant{defendant}.html", as a name in the directory
DefendantFname(d) == DefendantPrefix \o Str(d) \o HtmlExt

\* f"{self.docket_path}docket{link[-6:]}.html", as a name in the directory
DocketFname(c) == DocketPrefix \o TakeLast(LinkHref(c), IdWidth) \o HtmlExt

\* url = f"{url_root}{item}"
DefendantUrl(d) == def_url \o Str(d)
SheetUrl(c) == sheet_url \o LinkHref(c)

(***************************************************************************)
(* Range Auditor                                                           *)
(***************************************************************************)
\* re.search(prefix \d+ \.html, name): the pattern anywhere in the name
ReSearch(prefix, name) ==
    \E i \in (Len(prefix) + 1)..(Len(name) - ExtLen) :
        /\ SubSeq(name, i - Len(prefix), i - 1) = prefix
        /\ \E j \in i..(Len(name) - ExtLen) :
              /\ \A k \in i..j : IsDigit(name[k])
              /\ SubSeq(name, j + 1, j + ExtLen) = HtmlExt

IdFieldFive(name) == TakeLast(DropLast(name, ExtLen), IdWidth - 1)

\* i[:-5][-6:]
IdField(name) == TakeLast(DropLast(name, ExtLen), IdWidth)

\* [int(i[:-5][-6:]) for i in os.listdir(path) if re.search(fpattern, i)]:
\* raised is TRUE when int() raises ValueError on one of the matching names,
\* otherwise ids are the numbers parsed
Downloaded(names, prefix) ==
    LET matching == {i \in names : ReSearch(prefix, i)}
    IN  IF \E i \in matching : ~IntOk(IdField(i))
        THEN [raised |-> TRUE, ids |-> {}]
        ELSE [raised |-> FALSE, ids |-> {IntVal(IdField(i)) : i \in matching}]

\* [j for j in range(lo, hi) if j not in downloaded]
RECURSIVE RangeNotIn(_, _, _)
RangeNotIn(lo, hi, downloaded) ==
    IF lo >= hi THEN <<>>
    ELSE (IF lo \in downloaded THEN <<>> ELSE <<lo>>)
             \o RangeNotIn(lo + 1, hi, downloaded)

check_missing(lo, hi, names, prefix) ==
    LET downloaded == Downloaded(names, prefix)
    IN  IF downloaded.raised THEN [raised |-> TRUE, value |-> <<>>]
        ELSE [raised |-> FALSE,
              value |-> RangeNotIn(lo, hi, downloaded.ids)]

check_range_downloaded(lo, hi, names, prefix) ==
    LET downloaded == Downloaded(names, prefix)
    IN  IF downloaded.raised THEN [raised |-> TRUE, value |-> FALSE]
        ELSE [raised |-> FALSE,
              value |-> (lo \in downloaded.ids \/ hi \in downloaded.ids)]

(***************************************************************************)
(* The remote site and the files                                           *)
(***************************************************************************)
\* range(StartNum, StartNum + RangeLen): the defendant IDs of the model
AllIds == StartNum .. (StartNum + RangeLen - 1)
\* the docase numbers of the docket sheets of the model
Cases == FirstCase .. (FirstCase + NumCases - 1)

\* str(data).encode('utf-8') of a defendant page / of a docket sheet
DefBody(d) == <<"defendant page", d>>
SheetBody(c) == <<"docket sheet", c>>
\* a file opened with 'wb' and not written yet
EmptyFile == <<>>

\* get_defendant_case_links on the page of d: the page of the k-th ID links
\* to the first k+1 docket sheets, so sheets are shared between pages
get_defendant_case_links(d) ==
    {c \in Cases : c - FirstCase <= d - StartNum}

PutFileAppending(dir, fname, content) ==
    [n \in (DOMAIN dir) \cup {fname} |->
        IF n # fname THEN dir[n]
        ELSE IF n \in DOMAIN dir THEN dir[n] \o content ELSE content]

\* open(fname, 'wb') then write: the file at fname holds content
PutFile(dir, fname, content) ==
    [n \in (DOMAIN dir) \cup {fname} |-> IF n = fname THEN content ELSE dir[n]]

NoFiles == [n \in {} |-> EmptyFile]

(***************************************************************************)
(* State                                                                   *)
(***************************************************************************)
VARIABLES
    pc,           \* where munch is: "idle", "defendants", "sheets", "returned"
    outcome,      \* how the last munch ended: "none", "done", "cancelled",
                  \* "interrupted"
    run,          \* number of munch calls so far
    start, stop,  \* the arguments of the current munch call
    work,         \* the list given to munch_defendants
    dpc,          \* per defendant ID: where its download_defendant_data is
    sheet_links,  \* the links the sheet tasks were made for, one per task
    spc,          \* per sheet task: where its download_sheet_data is
    links,        \* self.links
    failed_urls,  \* self.failed_urls
    log_buffer,   \* self.log_buffer, a sequence of entries
    log_len,      \* self.log_len
    log_file,     \* what has been appended to the log file since munch was
                  \* called (the file is opened with 'a': what it held before
                  \* is never rewritten)
    def_dir,      \* the files under defendant_path: name -> content
    dock_dir,     \* the files under docket_path: name -> content
    run_log,      \* history: every entry logged since munch was called
    faults,       \* number of fetches so far that brought back no body
    prev,         \* history: how the munch call before this one ended, when
                  \* it was given the same range ("none" when there was no
                  \* call before, "other" when its range was another one)
    at_call       \* history: the files under defendant_path and under
                  \* docket_path when munch was called

VARIABLES
    a_pc,         \* the Range Auditor on its own: "idle", "missing", "range"
    a_names,      \* os.listdir(path)
    a_lo, a_hi,   \* the range [start, stop) asked about
    a_result      \* what check_missing / check_range_downloaded gave

VARIABLES
    tokens,       \* token bucket: tokens in the bucket
    phase,        \* clock steps since the last replenishment
    callers,      \* per caller of get: "idle", "suspended", "requesting"
    w_time,       \* history: clock steps since the interval observed began
    w_admitted,   \* history: requests admitted in the interval
    w_direct      \* history: those of them admitted without suspending

pipeline == <<pc, outcome, run, start, stop, work, dpc, sheet_links, spc,
              links,
              failed_urls, log_buffer, log_len, log_file, def_dir, dock_dir,
              run_log, faults, prev, at_call>>

audit == <<a_pc, a_names, a_lo, a_hi, a_result>>

limiter == <<tokens, phase, callers, w_time, w_admitted, w_direct>>

vars == <<pipeline, audit, limiter>>

(***************************************************************************)
(* The buffered log                                                        *)
(***************************************************************************)
LogState == [buf |-> log_buffer, len |-> log_len, file |-> log_file]

write_log_keeping_buffer(st) == [st EXCEPT !.file = st.file \o st.buf]

\* write_log: append the buffer to the file, empty the buffer
write_log(st) == [buf |-> <<>>, len |-> 0, file |-> st.file \o st.buf]

\* log: one entry (time stamp and message) is added to the buffer; the
\* buffer is written when log_len is over the threshold. log never adds to
\* log_len.
log(st, message) ==
    LET added == [st EXCEPT !.buf = Append(st.buf, message)]
    IN  IF added.len > LogThreshold THEN write_log(added) ELSE added

RECURSIVE LogAll(_, _)
LogAll(st, messages) ==
    IF messages = <<>> THEN st
    ELSE LogAll(log(st, Head(messages)), Tail(messages))

\* the log state after the step, and the history of what was logged
SetLog(st, messages) ==
    /\ log_buffer' = st.buf
    /\ log_len' = st.len
    /\ log_file' = st.file
    /\ run_log' = run_log \o messages

LogUnchanged == UNCHANGED <<log_buffer, log_len, log_file, run_log>>

CancelledLogUnwritten(st, messages) ==
    LogAll(st, messages \o <<<<"Munching cancelled">>>>)

\* except Exception as e: self.log(...cancelled...); self.write_log()
\* and then the write_log that ends munch
CancelledLog(st, messages) ==
    write_log(write_log(LogAll(st, messages \o <<<<"Munching cancelled">>>>)))

(***************************************************************************)
(* Construction                                                            *)
(***************************************************************************)
Ranges == {r \in (StartNum .. StartNum + RangeLen) \X
                 (StartNum .. StartNum + RangeLen) : r[1] <= r[2]}

PipelineInit ==
    /\ pc = "idle"
    /\ outcome = "none"
    /\ run = 0
    /\ start = StartNum
    /\ stop = StartNum
    /\ work = <<>>
    /\ dpc = [d \in AllIds |-> "none"]
    /\ sheet_links = <<>>
    /\ spc = <<>>
    /\ links = {}
    /\ failed_urls = <<>>
    /\ log_buffer = <<>>
    /\ log_len = 0
    /\ log_file = <<>>
    /\ def_dir = NoFiles
    /\ dock_dir = NoFiles
    /\ run_log = <<>>
    /\ faults = 0
    /\ prev = "none"
    /\ at_call = <<NoFiles, NoFiles>>

\* a new process builds a new scraper: __init__ resets the fields, the
\* files stay. Tasks of the run before are gone with their process.
NewInstance ==
    /\ pc = "returned"
    /\ run < MaxRuns
    /\ pc' = "idle"
    /\ links' = {}
    /\ failed_urls' = <<>>
    /\ log_buffer' = <<>>
    /\ log_len' = 0
    /\ dpc' = [d \in AllIds |-> "none"]
    /\ sheet_links' = <<>>
    /\ spc' = <<>>
    /\ UNCHANGED <<outcome, run, start, stop, work, log_file, def_dir,
                   dock_dir, run_log, faults, prev, at_call>>
    /\ UNCHANGED <<audit, limiter>>

(***************************************************************************)
(* munch                                                                   *)
(***************************************************************************)
ShufflesWithRepeats(lo, hi) == [1..(hi - lo) -> lo..(hi - 1)]

\* the orders random.shuffle can leave list(range(lo, hi)) in
Shuffles(lo, hi) ==
    {w \in [1..(hi - lo) -> lo..(hi - 1)] :
        \A i, j \in 1..(hi - lo) : i # j => w[i] # w[j]}

\* munch up to the first await of munch_defendants: the mode decision, the
\* work list, "Munching started", and the defendant tasks handed to gather.
\* A ValueError of the Range Auditor is caught by munch's except.
Munch(lo, hi) ==
    /\ pc \in {"idle", "returned"}
    /\ outcome # "interrupted" \/ pc = "idle"
    /\ run < MaxRuns
    /\ \E attempted \in {check_range_downloaded(lo, hi, DOMAIN def_dir,
                                                 DefendantPrefix)} :
       \E w \in (IF attempted.raised THEN {<<>>}
                 ELSE IF attempted.value
                 THEN {check_missing(lo, hi, DOMAIN def_dir,
                                     DefendantPrefix).value}
                 ELSE Shuffles(lo, hi)) :
       \E st \in {IF attempted.raised
                  THEN CancelledLog([LogState EXCEPT !.file = <<>>], <<>>)
                  ELSE log([LogState EXCEPT !.file = <<>>],
                           <<"Munching started">>)} :
          /\ work' = w
          /\ dpc' = [d \in AllIds |->
                       IF \E i \in 1..Len(w) : w[i] = d
                       THEN "ready" ELSE "none"]
          /\ pc' = IF attempted.raised THEN "returned" ELSE "defendants"
          /\ outcome' = IF attempted.raised THEN "cancelled" ELSE "none"
          /\ log_buffer' = st.buf
          /\ log_len' = st.len
          /\ log_file' = st.file
          /\ run_log' = IF attempted.raised
                        THEN <<<<"Munching cancelled">>>>
                        ELSE <<<<"Munching started">>>>
    /\ run' = run + 1
    /\ start' = lo
    /\ stop' = hi
    /\ sheet_links' = <<>>
    /\ spc' = <<>>
    /\ prev' = IF run = 0 THEN "none"
               ELSE IF lo = start /\ hi = stop THEN outcome ELSE "other"
    /\ at_call' = <<def_dir, dock_dir>>
    /\ UNCHANGED <<links, failed_urls, def_dir, dock_dir, faults>>
    /\ UNCHANGED <<audit, limiter>>

(***************************************************************************)
(* download_defendant_data                                                 *)
(***************************************************************************)
\* gather starts the tasks in the order of the list
Position(d) == CHOOSE i \in 1..Len(work) : work[i] = d

\* download_item up to the await of session.get: "downloading" is logged
DefStart(d) ==
    /\ pc = "defendants"
    /\ dpc[d] = "ready"
    /\ \A i \in 1..(Position(d) - 1) : dpc[work[i]] # "ready"
    /\ dpc' = [dpc EXCEPT ![d] = "fetching"]
    /\ SetLog(log(LogState, <<"downloading", Str(d)>>), <<<<"downloading", Str(d)>>>>)
    /\ UNCHANGED <<pc, outcome, run, start, stop, work, sheet_links, spc,
                   links, failed_urls, def_dir, dock_dir, faults, prev, at_call>>
    /\ UNCHANGED <<audit, limiter>>

\* the response has a body: download_defendant parses it, write_data logs
\* and awaits aiofiles.open
DefResponse(d) ==
    /\ pc = "defendants"
    /\ dpc[d] = "fetching"
    /\ dpc' = [dpc EXCEPT ![d] = "opening"]
    /\ SetLog(log(LogState, <<"Writing", DefendantFname(d)>>),
              <<<<"Writing", DefendantFname(d)>>>>)
    /\ UNCHANGED <<pc, outcome, run, start, stop, work, sheet_links, spc,
                   links, failed_urls, def_dir, dock_dir, faults, prev, at_call>>
    /\ UNCHANGED <<audit, limiter>>

\* aiofiles.open(fname, 'wb'): the file is created, or truncated
DefOpen(d) ==
    /\ pc = "defendants"
    /\ dpc[d] = "opening"
    /\ dpc' = [dpc EXCEPT ![d] = "opened"]
    /\ def_dir' = PutFile(def_dir, DefendantFname(d), EmptyFile)
    /\ LogUnchanged
    /\ UNCHANGED <<pc, outcome, run, start, stop, work, sheet_links, spc,
                   links, failed_urls, dock_dir, faults, prev, at_call>>
    /\ UNCHANGED <<audit, limiter>>

\* await f.write(str(data).encode('utf-8'))
DefWrite(d) ==
    /\ pc = "defendants"
    /\ dpc[d] = "opened"
    /\ dpc' = [dpc EXCEPT ![d] = "written"]
    /\ def_dir' = PutFile(def_dir, DefendantFname(d), DefBody(d))
    /\ LogUnchanged
    /\ UNCHANGED <<pc, outcome, run, start, stop, work, sheet_links, spc,
                   links, failed_urls, dock_dir, faults, prev, at_call>>
    /\ UNCHANGED <<audit, limiter>>

\* self.links = self.links.union(links)
AddLinks(ls, d) == ls \cup get_defendant_case_links(d)

\* the file is closed; the links of the page join self.links
DefFinish(d) ==
    /\ pc = "defendants"
    /\ dpc[d] = "written"
    /\ dpc' = [dpc EXCEPT ![d] = "done_ok"]
    /\ links' = AddLinks(links, d)
    /\ LogUnchanged
    /\ UNCHANGED <<pc, outcome, run, start, stop, work, sheet_links, spc,
                   failed_urls, def_dir, dock_dir, faults, prev, at_call>>
    /\ UNCHANGED <<audit, limiter>>

\* the response text is empty: download_defendant returns None, nothing is
\* written
DefEmpty(d) ==
    /\ pc = "defendants"
    /\ dpc[d] = "fetching"
    /\ faults < MaxFaults
    /\ faults' = faults + 1
    /\ dpc' = [dpc EXCEPT ![d] = "done_empty"]
    /\ LogUnchanged
    /\ UNCHANGED <<pc, outcome, run, start, stop, work, sheet_links, spc,
                   links, failed_urls, def_dir, dock_dir, prev, at_call>>
    /\ UNCHANGED <<audit, limiter>>

RecordFailedAsChars(urls, url) == urls \o [k \in 1..Len(url) |-> <<url[k]>>]

\* except (asyncio.TimeoutError, aiohttp.ClientError):
\* self.failed_urls.append(url)
RecordFailed(urls, url) == Append(urls, url)

\* except Exception: self.failed_urls += url, which extends the list by the
\* characters of the url, each a string of length one
RecordFatal(urls, url) == urls \o [k \in 1..Len(url) |-> <<url[k]>>]

DefTimeout(d) ==
    /\ pc = "defendants"
    /\ dpc[d] = "fetching"
    /\ faults < MaxFaults
    /\ faults' = faults + 1
    /\ dpc' = [dpc EXCEPT ![d] = "done_failed"]
    /\ failed_urls' = RecordFailed(failed_urls, DefendantUrl(d))
    /\ SetLog(log(LogState, <<"Timeout/ClientError", DefendantUrl(d)>>),
              <<<<"Timeout/ClientError", DefendantUrl(d)>>>>)
    /\ UNCHANGED <<pc, outcome, run, start, stop, work, sheet_links, spc,
                   links, def_dir, dock_dir, prev, at_call>>
    /\ UNCHANGED <<audit, limiter>>

\* any other exception: download_item logs and raises, and so does
\* download_defendant_data
DefFatal(d) ==
    /\ pc = "defendants"
    /\ dpc[d] = "fetching"
    /\ faults < MaxFaults
    /\ faults' = faults + 1
    /\ dpc' = [dpc EXCEPT ![d] = "raised"]
    /\ failed_urls' = RecordFatal(failed_urls, DefendantUrl(d))
    /\ LET messages == << <<"Exception downloading item", DefendantUrl(d)>>,
                          <<"Exception with defendant", Str(d)>> >>
       IN  SetLog(LogAll(LogState, messages), messages)
    /\ UNCHANGED <<pc, outcome, run, start, stop, work, sheet_links, spc,
                   links, def_dir, dock_dir, prev, at_call>>
    /\ UNCHANGED <<audit, limiter>>

(***************************************************************************)
(* munch_defendants: the two gathers                                       *)
(***************************************************************************)
Finished == {"done_ok", "done_empty", "done_failed"}

GatheredFirstCompleted(tasks, among) == \E t \in among : tasks[t] \in Finished

\* await asyncio.gather(...) returns: every task handed to it has returned
Gathered(tasks, among) == \A t \in among : tasks[t] \in Finished

\* await asyncio.gather(...) raises: a task handed to it has raised
GatherRaised(tasks, among) == \E t \in among : tasks[t] = "raised"

\* the elements of a set of numbers as a list
RECURSIVE AsList(_)
AsList(S) ==
    IF S = {} THEN <<>>
    ELSE LET m == CHOOSE x \in S : \A y \in S : x <= y
         IN  <<m>> \o AsList(S \ {m})

\* one task per link of each page fetched, links kept in a list
RECURSIVE LinksPerPage(_)
LinksPerPage(w) ==
    IF w = <<>> THEN <<>>
    ELSE (IF dpc[Head(w)] = "done_ok"
          THEN AsList(get_defendant_case_links(Head(w))) ELSE <<>>)
             \o LinksPerPage(Tail(w))

SheetTasksPerPage(ls) == LinksPerPage(work)

\* [self.download_sheet_data(session, link) for link in self.links]: one
\* task per element of the set (the tasks start in any order)
SheetTasks(ls) == AsList(ls)

WorkSet == {work[i] : i \in 1..Len(work)}

\* the first gather returns and the sheet tasks are handed to the second
StartSheets ==
    /\ pc = "defendants"
    /\ Gathered(dpc, WorkSet)
    /\ pc' = "sheets"
    /\ sheet_links' = SheetTasks(links)
    /\ spc' = [i \in 1..Len(SheetTasks(links)) |-> "ready"]
    /\ LogUnchanged
    /\ UNCHANGED <<outcome, run, start, stop, work, dpc, links, failed_urls,
                   def_dir, dock_dir, faults, prev, at_call>>
    /\ UNCHANGED <<audit, limiter>>

\* a gather raises: munch logs "Munching cancelled", writes the log twice
\* and returns. self.links is left as it is.
Cancel ==
    /\ \/ pc = "defendants" /\ GatherRaised(dpc, WorkSet)
       \/ pc = "sheets" /\ GatherRaised(spc, DOMAIN spc)
    /\ pc' = "returned"
    /\ outcome' = "cancelled"
    /\ SetLog(CancelledLog(LogState, <<>>), <<<<"Munching cancelled">>>>)
    /\ UNCHANGED <<run, start, stop, work, dpc, sheet_links, spc, links,
                   failed_urls, def_dir, dock_dir, faults, prev, at_call>>
    /\ UNCHANGED <<audit, limiter>>

\* the second gather returns: self.links = set(), "Munching completed", and
\* the write_log that ends munch
Complete ==
    /\ pc = "sheets"
    /\ Gathered(spc, DOMAIN spc)
    /\ pc' = "returned"
    /\ outcome' = "done"
    /\ links' = {}
    /\ SetLog(write_log(log(LogState, <<"Munching completed">>)),
              <<<<"Munching completed">>>>)
    /\ UNCHANGED <<run, start, stop, work, dpc, sheet_links, spc,
                   failed_urls, def_dir, dock_dir, faults, prev, at_call>>
    /\ UNCHANGED <<audit, limiter>>

\* the process is stopped (KeyboardInterrupt, kill) while munch awaits:
\* except Exception does not catch it, nothing is flushed
Interrupt ==
    /\ pc \in {"defendants", "sheets"}
    /\ pc' = "returned"
    /\ outcome' = "interrupted"
    /\ LogUnchanged
    /\ UNCHANGED <<run, start, stop, work, dpc, sheet_links, spc, links,
                   failed_urls, def_dir, dock_dir, faults, prev, at_call>>
    /\ UNCHANGED <<audit, limiter>>

(***************************************************************************)
(* download_sheet_data                                                     *)
(***************************************************************************)
SheetStart(i) ==
    /\ pc = "sheets"
    /\ i \in DOMAIN spc
    /\ spc[i] = "ready"
    /\ spc' = [spc EXCEPT ![i] = "fetching"]
    /\ SetLog(log(LogState, <<"downloading", LinkHref(sheet_links[i])>>),
              <<<<"downloading", LinkHref(sheet_links[i])>>>>)
    /\ UNCHANGED <<pc, outcome, run, start, stop, work, dpc, sheet_links, links,
                   failed_urls, def_dir, dock_dir, faults, prev, at_call>>
    /\ UNCHANGED <<audit, limiter>>

SheetResponse(i) ==
    /\ pc = "sheets"
    /\ i \in DOMAIN spc
    /\ spc[i] = "fetching"
    /\ spc' = [spc EXCEPT ![i] = "opening"]
    /\ SetLog(log(LogState, <<"Writing", DocketFname(sheet_links[i])>>),
              <<<<"Writing", DocketFname(sheet_links[i])>>>>)
    /\ UNCHANGED <<pc, outcome, run, start, stop, work, dpc, sheet_links, links,
                   failed_urls, def_dir, dock_dir, faults, prev, at_call>>
    /\ UNCHANGED <<audit, limiter>>

SheetOpen(i) ==
    /\ pc = "sheets"
    /\ i \in DOMAIN spc
    /\ spc[i] = "opening"
    /\ spc' = [spc EXCEPT ![i] = "opened"]
    /\ dock_dir' = PutFile(dock_dir, DocketFname(sheet_links[i]), EmptyFile)
    /\ LogUnchanged
    /\ UNCHANGED <<pc, outcome, run, start, stop, work, dpc, sheet_links, links,
                   failed_urls, def_dir, faults, prev, at_call>>
    /\ UNCHANGED <<audit, limiter>>

\* await f.write(...), then the file is closed and the task ends
SheetWrite(i) ==
    /\ pc = "sheets"
    /\ i \in DOMAIN spc
    /\ spc[i] = "opened"
    /\ spc' = [spc EXCEPT ![i] = "done_ok"]
    /\ dock_dir' = PutFile(dock_dir, DocketFname(sheet_links[i]), SheetBody(sheet_links[i]))
    /\ LogUnchanged
    /\ UNCHANGED <<pc, outcome, run, start, stop, work, dpc, sheet_links, links,
                   failed_urls, def_dir, faults, prev, at_call>>
    /\ UNCHANGED <<audit, limiter>>

SheetEmpty(i) ==
    /\ pc = "sheets"
    /\ i \in DOMAIN spc
    /\ spc[i] = "fetching"
    /\ faults < MaxFaults
    /\ faults' = faults + 1
    /\ spc' = [spc EXCEPT ![i] = "done_empty"]
    /\ LogUnchanged
    /\ UNCHANGED <<pc, outcome, run, start, stop, work, dpc, sheet_links, links,
                   failed_urls, def_dir, dock_dir, prev, at_call>>
    /\ UNCHANGED <<audit, limiter>>

SheetTimeout(i) ==
    /\ pc = "sheets"
    /\ i \in DOMAIN spc
    /\ spc[i] = "fetching"
    /\ faults < MaxFaults
    /\ faults' = faults + 1
    /\ spc' = [spc EXCEPT ![i] = "done_failed"]
    /\ failed_urls' = RecordFailed(failed_urls, SheetUrl(sheet_links[i]))
    /\ SetLog(log(LogState, <<"Timeout/ClientError", SheetUrl(sheet_links[i])>>),
              <<<<"Timeout/ClientError", SheetUrl(sheet_links[i])>>>>)
    /\ UNCHANGED <<pc, outcome, run, start, stop, work, dpc, sheet_links, links,
                   def_dir, dock_dir, prev, at_call>>
    /\ UNCHANGED <<audit, limiter>>

SheetFatal(i) ==
    /\ pc = "sheets"
    /\ i \in DOMAIN spc
    /\ spc[i] = "fetching"
    /\ faults < MaxFaults
    /\ faults' = faults + 1
    /\ spc' = [spc EXCEPT ![i] = "raised"]
    /\ failed_urls' = RecordFatal(failed_urls, SheetUrl(sheet_links[i]))
    /\ LET messages == << <<"Exception downloading item", SheetUrl(sheet_links[i])>>,
                          <<"Exception with sheet", LinkHref(sheet_links[i])>> >>
       IN  SetLog(LogAll(LogState, messages), messages)
    /\ UNCHANGED <<pc, outcome, run, start, stop, work, dpc, sheet_links, links,
                   def_dir, dock_dir, prev, at_call>>
    /\ UNCHANGED <<audit, limiter>>

(***************************************************************************)
(* The Range Auditor on its own: a directory listing and a range are       *)
(* given, and one of its two functions is applied                          *)
(***************************************************************************)
\* an ID of the range of the resumption scenario, [100, 110)
ShortId == 100
\* an ID of seven digits
LongId == 1633000

BakSuffix == <<".", "b", "a", "k">>

\* the names a directory listing is drawn from: files the scraper writes
\* for six-digit IDs, for a short and for a long ID, a zero-padded name, a
\* backup copy of a page, and a file of another kind
ListedNames ==
    {DefendantFname(d) : d \in StartNum .. (StartNum + RangeLen)}
        \cup {DefendantFname(ShortId), DefendantFname(LongId),
              DefendantPrefix \o <<"0", "0", "0">> \o Str(ShortId) \o HtmlExt,
              DefendantFname(StartNum) \o BakSuffix,
              <<"n", "o", "t", "e", "s", ".", "t", "x", "t">>}

AuditRanges == Ranges \cup {<<ShortId, ShortId + RangeLen>>}

AuditOff ==
    /\ a_pc = "off"
    /\ a_names = {}
    /\ a_lo = 0
    /\ a_hi = 0
    /\ a_result = [raised |-> FALSE, value |-> <<>>]

AuditDrawn ==
    /\ a_pc = "idle"
    /\ a_names \in SUBSET ListedNames
    /\ \E r \in AuditRanges : a_lo = r[1] /\ a_hi = r[2]
    /\ a_result = [raised |-> FALSE, value |-> <<>>]

AuditMissing ==
    /\ a_pc = "idle"
    /\ a_pc' = "missing"
    /\ a_result' = check_missing(a_lo, a_hi, a_names, DefendantPrefix)
    /\ UNCHANGED <<a_names, a_lo, a_hi>>
    /\ UNCHANGED <<pipeline, limiter>>

AuditRange ==
    /\ a_pc = "idle"
    /\ a_pc' = "range"
    /\ a_result' = check_range_downloaded(a_lo, a_hi, a_names,
                                          DefendantPrefix)
    /\ UNCHANGED <<a_names, a_lo, a_hi>>
    /\ UNCHANGED <<pipeline, limiter>>

(***************************************************************************)
(* The log on its own: log is called with messages of given lengths, and   *)
(* write_log is called as munch does when it ends. A message is written    *)
(* here as <<"message of length", n>>.                                     *)
(***************************************************************************)
MessageLens == {ShortMessage, LongMessage}

\* len(self.log_buffer): each entry is the time stamp and f"\n{message}\n"
RECURSIVE BufferedText(_)
BufferedText(buf) ==
    IF buf = <<>> THEN 0
    ELSE StampLen + 1 + Head(buf)[2] + 1 + BufferedText(Tail(buf))

LogCall(n) ==
    /\ Len(run_log) < MaxLogCalls
    /\ SetLog(log(LogState, <<"message of length", n>>),
              <<<<"message of length", n>>>>)
    /\ UNCHANGED <<pc, outcome, run, start, stop, work, dpc, sheet_links, spc,
                   links, failed_urls, def_dir, dock_dir, faults, prev,
                   at_call>>
    /\ UNCHANGED <<audit, limiter>>

WriteLog ==
    /\ SetLog(write_log(LogState), <<>>)
    /\ UNCHANGED <<pc, outcome, run, start, stop, work, dpc, sheet_links, spc,
                   links, failed_urls, def_dir, dock_dir, faults, prev,
                   at_call>>
    /\ UNCHANGED <<audit, limiter>>

(***************************************************************************)
(* The token bucket in front of session.get. A clock step is one           *)
(* StepsPerRefill-th of the replenishment interval.                        *)
(***************************************************************************)
Callers == 1..NumCallers

Min(a, b) == IF a <= b THEN a ELSE b

\* every interval Rate tokens are added, up to the capacity
Refill(t) == Min(t + Rate, MaxTokens)

LimiterOff ==
    /\ tokens = MaxTokens
    /\ phase = 0
    /\ callers = [c \in Callers |-> "idle"]
    /\ w_time = 0
    /\ w_admitted = 0
    /\ w_direct = 0

AcquireUnchecked(c) ==
    /\ callers[c] = "idle"
    /\ w_admitted <= MaxTokens + Rate * MaxSteps
    /\ tokens' = tokens - 1
    /\ callers' = [callers EXCEPT ![c] = "requesting"]
    /\ w_admitted' = w_admitted + 1
    /\ w_direct' = w_direct + 1
    /\ UNCHANGED <<phase, w_time>>
    /\ UNCHANGED <<pipeline, audit>>

\* a caller asks for a token: with one in the bucket it takes it in the same
\* step and goes on to its request, with none it suspends
Acquire(c) ==
    /\ callers[c] = "idle"
    /\ w_admitted <= MaxTokens + Rate * MaxSteps
    /\ IF tokens >= 1
       THEN /\ tokens' = tokens - 1
            /\ callers' = [callers EXCEPT ![c] = "requesting"]
            /\ w_admitted' = w_admitted + 1
            /\ w_direct' = w_direct + 1
       ELSE /\ callers' = [callers EXCEPT ![c] = "suspended"]
            /\ UNCHANGED <<tokens, w_admitted, w_direct>>
    /\ UNCHANGED <<phase, w_time>>
    /\ UNCHANGED <<pipeline, audit>>

\* a suspended caller is woken when there is a token, and takes it
Resume(c) ==
    /\ callers[c] = "suspended"
    /\ tokens >= 1
    /\ tokens' = tokens - 1
    /\ callers' = [callers EXCEPT ![c] = "requesting"]
    /\ w_admitted' = w_admitted + 1
    /\ UNCHANGED <<phase, w_time, w_direct>>
    /\ UNCHANGED <<pipeline, audit>>

\* the wrapped GET returns
Respond(c) ==
    /\ callers[c] = "requesting"
    /\ callers' = [callers EXCEPT ![c] = "idle"]
    /\ UNCHANGED <<tokens, phase, w_time, w_admitted, w_direct>>
    /\ UNCHANGED <<pipeline, audit>>

\* the clock advances by one step; at the end of the replenishment interval
\* the bucket is refilled
Tick ==
    /\ w_time < MaxSteps
    /\ phase' = (phase + 1) % StepsPerRefill
    /\ tokens' = IF phase + 1 = StepsPerRefill THEN Refill(tokens) ELSE tokens
    /\ w_time' = w_time + 1
    /\ UNCHANGED <<callers, w_admitted, w_direct>>
    /\ UNCHANGED <<pipeline, audit>>

\* the interval observed begins now
Observe ==
    /\ w_time > 0 \/ w_admitted > 0
    /\ w_time' = 0
    /\ w_admitted' = 0
    /\ w_direct' = 0
    /\ UNCHANGED <<tokens, phase, callers>>
    /\ UNCHANGED <<pipeline, audit>>

(***************************************************************************)
(* The pipeline                                                            *)
(***************************************************************************)
DefendantStep ==
    \E d \in AllIds :
        \/ DefStart(d) \/ DefResponse(d) \/ DefOpen(d) \/ DefWrite(d)
        \/ DefFinish(d) \/ DefEmpty(d) \/ DefTimeout(d) \/ DefFatal(d)

SheetStep ==
    \E i \in 1..(RangeLen * NumCases) :
        \/ SheetStart(i) \/ SheetResponse(i) \/ SheetOpen(i) \/ SheetWrite(i)
        \/ SheetEmpty(i) \/ SheetTimeout(i) \/ SheetFatal(i)

Next ==
    \/ \E r \in Ranges : Munch(r[1], r[2])
    \/ NewInstance
    \/ DefendantStep
    \/ StartSheets
    \/ SheetStep
    \/ Cancel
    \/ Complete
    \/ Interrupt

Init == PipelineInit /\ AuditOff /\ LimiterOff

Spec == Init /\ [][Next]_vars

InitAudit == PipelineInit /\ AuditDrawn /\ LimiterOff

NextAudit == AuditMissing \/ AuditRange

SpecAudit == InitAudit /\ [][NextAudit]_vars

InitLimiter == PipelineInit /\ AuditOff /\ LimiterOff

NextLimiter ==
    \/ \E c \in Callers : Acquire(c) \/ Resume(c) \/ Respond(c)
    \/ Tick
    \/ Observe

SpecRateLimiter == InitLimiter /\ [][NextLimiter]_vars

InitLog == PipelineInit /\ AuditOff /\ LimiterOff

NextLog ==
    \/ \E n \in MessageLens : LogCall(n)
    \/ WriteLog

SpecLog == InitLog /\ [][NextLog]_vars

(***************************************************************************)
(* Properties of the pipeline                                              *)
(***************************************************************************)
Range == start .. (stop - 1)

InSeq(seq, e) == \E k \in 1..Len(seq) : seq[k] = e

Count(seq, e) == Cardinality({k \in 1..Len(seq) : seq[k] = e})

HasFile(dir, fname) == fname \in DOMAIN dir

Persisted(dir, fname, body) == HasFile(dir, fname) /\ dir[fname] = body

SheetStarted(i) == spc[i] # "ready"

\* C1: no sheet task has started its fetch unless every defendant task of
\* the batch has finished, with a body, empty or with a recoverable failure
C1_Barrier ==
    (\E i \in DOMAIN spc : SheetStarted(i))
        => \A d \in WorkSet : dpc[d] \in Finished

\* a sheet is being fetched after a batch in which one defendant task
\* failed recoverably and another one succeeded
C1_Witness ==
    /\ pc = "sheets"
    /\ \E i \in DOMAIN spc : spc[i] = "fetching"
    /\ \E d \in WorkSet : dpc[d] = "done_failed"
    /\ \E d \in WorkSet : dpc[d] = "done_ok"

\* C2: once a defendant task has raised an unexpected error the sheet phase
\* never starts; when munch has returned, the error and the cancellation are
\* in the log file, the buffer is empty, and the file of every sibling that
\* had written its page holds that page
C2_FatalInFanOut ==
    (\E d \in WorkSet : dpc[d] = "raised") =>
        /\ pc # "sheets"
        /\ spc = <<>>
        /\ (pc = "returned" /\ outcome = "cancelled") =>
              /\ log_buffer = <<>>
              /\ InSeq(log_file, <<"Munching cancelled">>)
              /\ \A d \in WorkSet :
                    /\ dpc[d] = "raised" =>
                          InSeq(log_file,
                                <<"Exception with defendant", Str(d)>>)
                    /\ dpc[d] \in {"written", "done_ok"} =>
                          Persisted(def_dir, DefendantFname(d), DefBody(d))

\* munch has returned after a fan-out of two tasks in which one raised and
\* the other had completed
C2_Witness ==
    /\ pc = "returned"
    /\ outcome = "cancelled"
    /\ \E d \in WorkSet : dpc[d] = "raised"
    /\ \E d \in WorkSet : dpc[d] = "done_ok"

\* a step in which a fetch ends with a timeout or client error
C3_Step ==
    /\ \A d \in AllIds :
         (dpc[d] = "fetching" /\ dpc'[d] = "done_failed") =>
            /\ Len(failed_urls') = Len(failed_urls) + 1
            /\ Count(failed_urls', DefendantUrl(d))
                 = Count(failed_urls, DefendantUrl(d)) + 1
            /\ def_dir' = def_dir /\ dock_dir' = dock_dir
            /\ pc' = pc /\ outcome' = outcome
            /\ \A e \in AllIds \ {d} : dpc'[e] = dpc[e]
    /\ \A i \in DOMAIN spc :
         (spc[i] = "fetching" /\ DOMAIN spc' = DOMAIN spc
                               /\ spc'[i] = "done_failed") =>
            /\ Len(failed_urls') = Len(failed_urls) + 1
            /\ Count(failed_urls', SheetUrl(sheet_links[i]))
                 = Count(failed_urls, SheetUrl(sheet_links[i])) + 1
            /\ def_dir' = def_dir /\ dock_dir' = dock_dir
            /\ pc' = pc /\ outcome' = outcome
            /\ \A j \in DOMAIN spc \ {i} : spc'[j] = spc[j]

\* a run is cancelled only by a task that raised, and a batch whose tasks
\* have all finished goes on to the sheet phase
C3_Continues ==
    /\ (pc = "returned" /\ outcome = "cancelled") =>
          \/ \E d \in WorkSet : dpc[d] = "raised"
          \/ \E i \in DOMAIN spc : spc[i] = "raised"
    /\ (pc = "defendants" /\ Gathered(dpc, WorkSet)) => ENABLED StartSheets

\* C3: a fetch that fails with a timeout or client error appends its URL to
\* failed_urls exactly once, ends its task without raising, writes no file
\* and leaves munch and the sibling tasks where they are; only a raised task
\* cancels a run, and a batch that has finished goes on to the sheet phase
C3_Recoverable == []C3_Continues /\ [][C3_Step]_vars

\* a run has completed in which one defendant fetch timed out, its sibling
\* was written, and a sheet was fetched
C3_Witness ==
    /\ pc = "returned"
    /\ outcome = "done"
    /\ \E d \in WorkSet :
          /\ dpc[d] = "done_failed"
          /\ InSeq(failed_urls, DefendantUrl(d))
          /\ ~HasFile(def_dir, DefendantFname(d))
    /\ \E d \in WorkSet : dpc[d] = "done_ok"
    /\ \E i \in DOMAIN spc : spc[i] = "done_ok"

\* C6: in one run no link has more than one sheet task that started a fetch
C6_FetchedOnce ==
    \A c \in Cases :
        Cardinality({i \in DOMAIN spc :
                        sheet_links[i] = c /\ SheetStarted(i)}) <= 1

\* a link that two pages fetched in this run refer to has been fetched
C6_Witness ==
    \E c \in Cases :
        /\ Cardinality({d \in WorkSet :
               dpc[d] = "done_ok" /\ c \in get_defendant_case_links(d)}) >= 2
        /\ \E i \in DOMAIN spc : sheet_links[i] = c /\ spc[i] = "done_ok"

\* C7: when munch has returned, completed or cancelled, the buffer is empty
\* and the log file holds, since the call, exactly the entries logged, once
\* each and in the order they were logged
C7_LogFlushed ==
    (pc = "returned" /\ outcome \in {"done", "cancelled"}) =>
        /\ log_buffer = <<>>
        /\ log_file = run_log

\* munch has returned on the cancelled path, after both of its write_log
C7_Witness ==
    /\ pc = "returned"
    /\ outcome = "cancelled"
    /\ Len(run_log) >= 4
    /\ InSeq(run_log, <<"Munching cancelled">>)

NotStarted == \A d \in AllIds : dpc[d] \in {"none", "ready"}

\* C4: when munch is called again on a range of which an interrupted run
\* wrote some files, its work list is exactly the IDs of the range that have
\* no file, each once
C4_ResumesMissingOnly ==
    (/\ pc = "defendants"
     /\ NotStarted
     /\ prev = "interrupted"
     /\ \E d \in Range : HasFile(def_dir, DefendantFname(d))
     /\ \A d \in Range : HasFile(def_dir, DefendantFname(d)) =>
            Persisted(def_dir, DefendantFname(d), DefBody(d)))
        => /\ WorkSet = {d \in Range : ~HasFile(def_dir, DefendantFname(d))}
           /\ Len(work) = Cardinality(WorkSet)

\* C9: in a munch that follows a cancelled one on the same range, and whose
\* defendant fetches all succeed, every page of the range that is not on
\* disk is in the work list and every sheet those pages link to that is not
\* on disk has a sheet task
C9_ShortfallCovered ==
    (/\ prev = "cancelled"
     /\ pc = "sheets"
     /\ \A d \in WorkSet : dpc[d] = "done_ok")
        => /\ \A d \in Range :
                \/ d \in WorkSet
                \/ Persisted(def_dir, DefendantFname(d), DefBody(d))
           /\ \A d \in Range : \A c \in get_defendant_case_links(d) :
                \/ InSeq(sheet_links, c)
                \/ Persisted(dock_dir, DocketFname(c), SheetBody(c))

(***************************************************************************)
(* Properties of the Range Auditor                                         *)
(***************************************************************************)
\* the shape of an item file: the prefix, IdWidth digits, the extension
ExpectedShape(prefix, name) ==
    /\ Len(name) = Len(prefix) + IdWidth + ExtLen
    /\ SubSeq(name, 1, Len(prefix)) = prefix
    /\ \A k \in (Len(prefix) + 1)..(Len(prefix) + IdWidth) : IsDigit(name[k])
    /\ SubSeq(name, Len(name) - ExtLen + 1, Len(name)) = HtmlExt

\* a name the scraper gives the page of a six-digit ID
ProgramNamed(prefix, name) ==
    /\ ExpectedShape(prefix, name)
    /\ name[Len(prefix) + 1] # "0"

Elements(seq) == {seq[k] : k \in 1..Len(seq)}

\* C5: on a directory of files named as the scraper names the pages of
\* six-digit IDs, check_missing does not raise and returns, in ascending
\* order and each once, exactly the IDs of [start, stop) that have no file
C5_MissingExact ==
    (/\ a_pc = "missing"
     /\ \A n \in a_names : ProgramNamed(DefendantPrefix, n))
        => /\ ~a_result.raised
           /\ \A k \in 1..(Len(a_result.value) - 1) :
                 a_result.value[k] < a_result.value[k + 1]
           /\ Elements(a_result.value)
                 = {j \in a_lo..(a_hi - 1) : DefendantFname(j) \notin a_names}

\* check_missing has run on a range of which one page is on disk and
\* another is not
C5_Witness ==
    /\ a_pc = "missing"
    /\ \A n \in a_names : ProgramNamed(DefendantPrefix, n)
    /\ \E j \in a_lo..(a_hi - 1) : DefendantFname(j) \in a_names
    /\ \E j \in a_lo..(a_hi - 1) : DefendantFname(j) \notin a_names
    /\ Len(a_result.value) >= 1

\* C10: neither function of the Range Auditor raises, whatever the names in
\* the directory: its result is the one computed from the names of the
\* expected shape alone
C10_SkipsOtherNames ==
    LET shaped == {n \in a_names : ExpectedShape(DefendantPrefix, n)}
    IN  /\ a_pc = "missing" =>
              /\ ~a_result.raised
              /\ a_result = check_missing(a_lo, a_hi, shaped, DefendantPrefix)
        /\ a_pc = "range" =>
              /\ ~a_result.raised
              /\ a_result = check_range_downloaded(a_lo, a_hi, shaped,
                                                   DefendantPrefix)

\* C16: on a directory of files named as the scraper names them,
\* check_range_downloaded(start, stop) is true only if the first or the last
\* ID of [start, stop) has a file, so that munch is in missing-only mode only
\* when an ID of the range has a file, never for a file outside the range
C16_BoundaryInside ==
    (/\ a_pc = "range"
     /\ \A n \in a_names : ProgramNamed(DefendantPrefix, n)
     /\ ~a_result.raised
     /\ a_result.value)
        => /\ a_lo < a_hi
           /\ \/ DefendantFname(a_lo) \in a_names
              \/ DefendantFname(a_hi - 1) \in a_names

(***************************************************************************)
(* Properties of the token bucket                                          *)
(***************************************************************************)
\* in the interval observed, of T = w_time / StepsPerRefill replenishment
\* intervals, the requests admitted without suspending are at most
\* max_tokens + rate * T
C8_Bound ==
    StepsPerRefill * w_direct
        <= StepsPerRefill * MaxTokens + Rate * w_time

\* a caller that asks when the bucket is empty suspends
C8_EmptySuspends ==
    \A c \in Callers :
        (callers[c] = "idle" /\ callers'[c] # "idle" /\ tokens = 0)
            => callers'[c] = "suspended"

\* C8: over every interval of duration T, for any interleaving of the
\* callers, at most max_tokens + rate * T requests are admitted without
\* suspending, and a request that finds the bucket empty suspends
C8_TokenBucket == []C8_Bound /\ [][C8_EmptySuspends]_vars

\* the callers whose request is admitted in the step
AdmittedInStep == {c \in Callers : callers[c] # "requesting"
                                     /\ callers'[c] = "requesting"}

C18_InBounds == tokens \in 0..MaxTokens

\* each request admitted in a step takes one token that was in the bucket,
\* and a caller goes from asking or waiting to its request only so
C18_Step ==
    /\ AdmittedInStep # {} =>
          /\ tokens >= Cardinality(AdmittedInStep)
          /\ tokens' = tokens - Cardinality(AdmittedInStep)
    /\ \A c \in Callers :
          (callers[c] = "idle" /\ tokens = 0 /\ callers'[c] # "idle")
              => callers'[c] = "suspended"
    /\ \A c \in Callers :
          (callers[c] = "suspended" /\ tokens = 0)
              => callers'[c] = "suspended"

\* C18: the tokens in the bucket are always between 0 and max_tokens; the
\* test for a token and its decrement are one step, so that every request
\* admitted takes a token of its own, and a caller that finds no token
\* suspends until a replenishment
C18_TokensSafe == []C18_InBounds /\ [][C18_Step]_vars

\* the bucket is empty, a caller is suspended and another has its request
\* under way
C18_Witness ==
    /\ tokens = 0
    /\ \E c \in Callers : callers[c] = "suspended"
    /\ \E c \in Callers : callers[c] = "requesting"

(***************************************************************************)
(* Further properties of the pipeline                                      *)
(***************************************************************************)
\* the URLs the scraper fetches
AllUrls == {DefendantUrl(d) : d \in AllIds} \cup {SheetUrl(c) : c \in Cases}

\* every element of failed_urls is a complete URL
C11_CompleteUrls == \A k \in 1..Len(failed_urls) : failed_urls[k] \in AllUrls

\* failed_urls changes only by the URL of a fetch that ends with a timeout
\* or client error being appended (a new scraper has a new, empty list)
C11_Step ==
    \/ failed_urls' = failed_urls
    \/ pc = "returned" /\ pc' = "idle" /\ failed_urls' = <<>>
    \/ \E d \in AllIds :
          /\ dpc[d] = "fetching" /\ dpc'[d] = "done_failed"
          /\ failed_urls' = Append(failed_urls, DefendantUrl(d))
    \/ \E i \in DOMAIN spc :
          /\ DOMAIN spc' = DOMAIN spc
          /\ spc[i] = "fetching" /\ spc'[i] = "done_failed"
          /\ failed_urls' = Append(failed_urls, SheetUrl(sheet_links[i]))

\* C11: failed_urls is append-only and each of its elements is the complete
\* URL of a fetch that failed with a timeout or client error; a fetch that
\* fails with an unexpected error adds nothing to it, and nothing in it is
\* removed or changed
C11_AppendOnly == []C11_CompleteUrls /\ [][C11_Step]_vars

\* the body a file of the scraper holds when it is complete
BodyOf(fname) ==
    {DefBody(d) : d \in {e \in AllIds : DefendantFname(e) = fname}}
        \cup {SheetBody(c) : c \in {e \in Cases : DocketFname(e) = fname}}

\* a step keeps every file, and a file it writes holds nothing yet or the
\* body of its item, whatever it held before
Overwrites(dir, dir_after) ==
    /\ DOMAIN dir \subseteq DOMAIN dir_after
    /\ \A n \in DOMAIN dir_after :
          (n \notin DOMAIN dir \/ dir_after[n] # dir[n])
              => dir_after[n] \in {EmptyFile} \cup BodyOf(n)

C12_Overwrites ==
    /\ Overwrites(def_dir, def_dir')
    /\ Overwrites(dock_dir, dock_dir')

\* the files after a second run without failures are the files there were
\* when it was called, which are those the first run left
C12_SameFiles ==
    (/\ pc = "returned" /\ outcome = "done"
     /\ prev = "done"
     /\ faults = 0)
        => /\ def_dir = at_call[1]
           /\ dock_dir = at_call[2]

\* C12: when munch has run twice on the same range and directories, without
\* a failure, the files after the second run are the files after the first,
\* name by name with the same content; and every write replaces what the
\* file held, none appends to it
C12_Idempotent == []C12_SameFiles /\ [][C12_Overwrites]_vars

\* munch has completed a second time on a range of which the first run
\* wrote pages and sheets
C12_Witness ==
    /\ pc = "returned" /\ outcome = "done"
    /\ prev = "done"
    /\ faults = 0
    /\ start < stop
    /\ \A d \in Range : Persisted(def_dir, DefendantFname(d), DefBody(d))
    /\ DOMAIN dock_dir # {}

\* C14: in every step that is a call of munch, self.links is empty when
\* the call is made, whether the run before completed or was cancelled
C14_NoLeak == [][(run' = run + 1) => links = {}]_vars

\* the links of the pages fetched with success in this run
LinksOfRun ==
    UNION {get_defendant_case_links(d) :
              d \in {e \in WorkSet : dpc[e] = "done_ok"}}

\* C15: when every defendant task of the run has finished and none has
\* raised, self.links is exactly the union of the links of the pages
\* fetched with success in this run, whatever the order the tasks ran in
C15_UnionOfRun ==
    (/\ pc \in {"defendants", "sheets"}
     /\ \A d \in WorkSet : dpc[d] \in Finished)
        => links = LinksOfRun

\* the number of fetches of the page of d that were started since munch
\* was called
Launched(d) == Count(run_log, <<"downloading", Str(d)>>)

\* C17: the work list of a run holds no ID twice and no ID outside
\* [start, stop), each of its IDs has one fetch task and no other ID has
\* one, and a task starts one fetch; when file of start or of stop is there
\* at the call (missing-only mode) the list holds no ID whose file is there,
\* and otherwise (full mode) it is a permutation of [start, stop)
C17_OneTaskPerId ==
    /\ Len(work) = Cardinality(WorkSet)
    /\ WorkSet \subseteq Range
    /\ pc # "idle" =>
          \A d \in AllIds :
              /\ d \notin WorkSet => dpc[d] = "none"
              /\ d \in WorkSet => dpc[d] # "none"
              /\ Launched(d) = (IF dpc[d] \in {"none", "ready"} THEN 0 ELSE 1)
    /\ (pc = "defendants" /\ NotStarted) =>
          IF \/ HasFile(def_dir, DefendantFname(start))
             \/ HasFile(def_dir, DefendantFname(stop))
          THEN \A d \in WorkSet : ~HasFile(def_dir, DefendantFname(d))
          ELSE WorkSet = Range

\* in missing-only mode, over a range of which the page of start is on disk,
\* the fetch of a page that is not has started
C17_Witness ==
    /\ pc = "defendants"
    /\ Persisted(def_dir, DefendantFname(start), DefBody(start))
    /\ start \notin WorkSet
    /\ \E d \in WorkSet : dpc[d] = "fetching" /\ Launched(d) = 1

\* C19: whenever munch is not running (before a call, and after a run that
\* completed, was cancelled or was interrupted), every defendant file on
\* disk, which the Range Auditor counts as downloaded, holds the complete
\* page of its ID
C19_PresenceSound ==
    pc \in {"idle", "returned"} =>
        \A d \in AllIds :
            HasFile(def_dir, DefendantFname(d))
                => /\ d \in Downloaded(DOMAIN def_dir, DefendantPrefix).ids
                   /\ def_dir[DefendantFname(d)] = DefBody(d)

(***************************************************************************)
(* Properties of the log                                                   *)
(***************************************************************************)
\* a call of log that finds more than the threshold of text in the buffer
\* writes the buffer, with its own entry, to the log file and empties it
C13_Step ==
    (BufferedText(log_buffer) > LogThreshold /\ run_log' # run_log)
        => /\ log_buffer' = <<>>
           /\ log_file' = log_file \o log_buffer
                              \o SubSeq(run_log', Len(run_log) + 1,
                                        Len(run_log'))

\* C13: once the text in the buffer exceeds the threshold (100000), the
\* next call of log writes the buffer to the log file and empties it
C13_ThresholdFlush == [][C13_Step]_vars

====
